---- MODULE Spec2Model ----
(***************************************************************************)
(* A model of mitsuba2's Scene (src/librender/scene.cpp): the constructor  *)
(* that aggregates the loaded objects, synthesizes defaults, initialises   *)
(* the acceleration backend and builds the emitter distribution; the       *)
(* destructor; and the query methods ray_intersect, ray_intersect_naive,   *)
(* ray_test and sample_emitter_direction.                                  *)
(***************************************************************************)
EXTENDS Integers, Sequences, FiniteSets, TLC

\* The largest number of entries of props.objects() that is explored.
MaxObjs == 2

\* No object (a null pointer).
Null == [id |-> -1]

\* No exception.
NoError == "none"

(***************************************************************************)
(* Exact arithmetic on non-negative rationals <<numerator, denominator>>,  *)
(* kept in lowest terms, for the Float values the code computes with.      *)
(***************************************************************************)
RECURSIVE GCD(_, _)
GCD(a, b) == IF b = 0 THEN a ELSE GCD(b, a % b)

Rat(n, d) == IF n = 0 THEN <<0, 1>> ELSE <<n \div GCD(n, d), d \div GCD(n, d)>>

RZero == <<0, 1>>

ROne == <<1, 1>>

RAdd(a, b) == Rat(a[1] * b[2] + b[1] * a[2], a[2] * b[2])

RSub(a, b) == Rat(a[1] * b[2] - b[1] * a[2], a[2] * b[2])

RMul(a, b) == Rat(a[1] * b[1], a[2] * b[2])

RDiv(a, b) == Rat(a[1] * b[2], a[2] * b[1])

\* rcp(x) = 1 / x
rcp(a) == Rat(a[2], a[1])

RLess(a, b) == a[1] * b[2] < b[1] * a[2]

(***************************************************************************)
(* The objects a Properties instance can hold, by what the dynamic_casts   *)
(* of the constructor and the accessors of Shape and Emitter report.       *)
(*   kind        which of the casts succeeds ("other": none of them)       *)
(*   is_emitter  Shape::is_emitter()                                       *)
(*   is_sensor   Shape::is_sensor()                                        *)
(*   env         Emitter::is_environment() of the emitter (the object      *)
(*               itself, or the one embedded in the shape)                 *)
(***************************************************************************)
Obj(k, e, s, v) == [kind |-> k, is_emitter |-> e, is_sensor |-> s, env |-> v]

\* A shape without an emitter has no emitter whose flag could be set.
WellFormed(o) == o.env => (o.kind = "emitter" \/ o.is_emitter)

Objects ==
    { o \in { Obj("shape", e, s, v) : e \in BOOLEAN, s \in BOOLEAN, v \in BOOLEAN }
             \cup { Obj("emitter", FALSE, FALSE, v) : v \in BOOLEAN }
             \cup { Obj("sensor", FALSE, FALSE, FALSE),
                    Obj("integrator", FALSE, FALSE, FALSE),
                    Obj("other", FALSE, FALSE, FALSE) } : WellFormed(o) }

SeqsUpTo(S, n) == UNION { [1..k -> S] : k \in 0..n }

\* The values props.objects() can enumerate, in enumeration order.
PropsSet == SeqsUpTo(Objects, MaxObjs)

(***************************************************************************)
(* Bounding boxes, along one axis.  A default-constructed box is invalid   *)
(* (min above max); the shape at position i of props occupies [i, i+1].    *)
(***************************************************************************)
EmptyBBox == [min |-> 1000, max |-> -1000]

ShapeBBox(i) == [min |-> i, max |-> i + 1]

Min(a, b) == IF a < b THEN a ELSE b

Max(a, b) == IF a > b THEN a ELSE b

expand(box, other) ==
    [min |-> Min(box.min, other.min), max |-> Max(box.max, other.max)]

valid(box) == box.max >= box.min

(***************************************************************************)
(* Entities held by the scene.  An entity is identified by the position    *)
(* in props of the object it came from (0: synthesized by the scene).      *)
(***************************************************************************)
EmitterOf(i, o) == [id |-> i, env |-> o.env, embedded |-> o.kind = "shape"]

SensorOf(i, o) == [id |-> i, embedded |-> o.kind = "shape", placed |-> TRUE]

\* create_object<Sensor>(sensor_props): to_world and the clip planes are
\* set only for a valid bounding box.
DefaultSensor(box) == [id |-> 0, embedded |-> FALSE, placed |-> valid(box)]

IntegratorOf(i) == [id |-> i]

\* create_object<Integrator>(Properties("path"))
DefaultIntegrator == [id |-> 0]

(***************************************************************************)
(* DiscreteDistribution<Float>: the cumulative table m_cdf (starting with  *)
(* 0), the sum of weights and the normalized flag.                         *)
(***************************************************************************)
Last(s) == s[Len(s)]

\* DiscreteDistribution(n_entries): reserve(n_entries); clear()
DiscreteDistribution(n) == [cdf |-> <<RZero>>, sum |-> RZero, normalized |-> FALSE]

append(d, w) == [d EXCEPT !.cdf = Append(@, RAdd(Last(@), w))]

normalize(d) ==
    [cdf |-> [i \in 1..Len(d.cdf) |-> RDiv(d.cdf[i], Last(d.cdf))],
     sum |-> Last(d.cdf),
     normalized |-> TRUE]

size(d) == Len(d.cdf) - 1

\* std::upper_bound over m_cdf, minus one, clamped to the entries.
sample(d, x) ==
    LET above == { i \in 1..Len(d.cdf) : RLess(x, d.cdf[i]) }
        ub == IF above = {} THEN Len(d.cdf) + 1
              ELSE CHOOSE i \in above : \A j \in above : i <= j
    IN  Min(Max(ub - 2, 0), size(d) - 1)

\* (index, probability of the index, the sample rescaled to [0, 1))
sample_reuse_pdf(d, x) ==
    LET index == sample(d, x)
        pdf == RSub(d.cdf[index + 2], d.cdf[index + 1])
    IN  [index |-> index, pdf |-> pdf,
         reused |-> RDiv(RSub(x, d.cdf[index + 1]), pdf)]

(***************************************************************************)
(* The members of a Scene.  accel is the backend handle: "none" before     *)
(* accel_init_*, then "cpu" or "gpu", and "released" after                 *)
(* accel_release_*.  set_scene holds the emitters told their scene.        *)
(***************************************************************************)
NewScene ==
    [m_children |-> <<>>, m_emitters |-> <<>>, m_sensors |-> <<>>,
     m_environment |-> Null, m_integrator |-> Null, m_bbox |-> EmptyBBox,
     m_emitter_distr |-> DiscreteDistribution(0), accel |-> "none",
     set_scene |-> {}]

\* SecondEnvironment without the test of m_environment: a second
\* environment emitter replaces the first.
SecondEnvironment_unchecked(s, o) == FALSE

\* A second environment emitter: the Throw of the emitter branch.
SecondEnvironment(s, o) ==
    o.kind = "emitter" /\ o.env /\ s.m_environment # Null

\* A second integrator: the Throw of the integrator branch.
SecondIntegrator(s, o) ==
    o.kind = "integrator" /\ s.m_integrator # Null

\* The message of the Throw that visiting o raises, NoError when it raises none.
Thrown(s, o) ==
    IF SecondEnvironment(s, o)
    THEN "Only one environment emitter can be specified per scene."
    ELSE IF SecondIntegrator(s, o)
    THEN "Only one integrator can be specified per scene."
    ELSE NoError

\* The emitter a shape contributes to m_emitters.
ShapeEmitters(s, i, o) ==
    IF o.is_emitter THEN Append(s.m_emitters, EmitterOf(i, o)) ELSE s.m_emitters

\* The sensor a shape contributes to m_sensors.
ShapeSensors(s, i, o) ==
    IF o.is_sensor THEN Append(s.m_sensors, SensorOf(i, o)) ELSE s.m_sensors

\* One iteration of the loop over props.objects(): the members after the
\* object o at position i is visited (up to the Throw, when it raises one).
Visit(s, i, o) ==
    LET c == [s EXCEPT !.m_children = Append(@, i)]
    IN  CASE o.kind = "shape" ->
                [c EXCEPT !.m_emitters = ShapeEmitters(s, i, o),
                          !.m_sensors = ShapeSensors(s, i, o),
                          !.m_bbox = expand(@, ShapeBBox(i))]
          [] o.kind = "emitter" ->
                [c EXCEPT !.m_emitters = Append(@, EmitterOf(i, o)),
                          !.m_environment =
                              IF o.env /\ ~SecondEnvironment(s, o)
                              THEN EmitterOf(i, o) ELSE @]
          [] o.kind = "sensor" ->
                [c EXCEPT !.m_sensors = Append(@, SensorOf(i, o))]
          [] o.kind = "integrator" ->
                [c EXCEPT !.m_integrator =
                              IF SecondIntegrator(s, o) THEN @ ELSE IntegratorOf(i)]
          [] OTHER -> c

\* NoSensor when a default sensor is synthesized only for a scene with shapes.
NoSensor_needs_bbox(s) == s.m_sensors = <<>> /\ valid(s.m_bbox)

NoSensor(s) == s.m_sensors = <<>>

NoIntegrator(s) == s.m_integrator = Null

\* The defaults synthesized after the loop.
Defaults(s) ==
    [s EXCEPT !.m_sensors = IF NoSensor(s) THEN <<DefaultSensor(s.m_bbox)>> ELSE @,
              !.m_integrator = IF NoIntegrator(s) THEN DefaultIntegrator ELSE @]

\* accel_init_gpu(props) for a CUDA variant, accel_init_cpu(props) otherwise.
AccelInit(s, isCuda) == [s EXCEPT !.accel = IF isCuda THEN "gpu" ELSE "cpu"]

\* accel_release_gpu() / accel_release_cpu()
AccelRelease(s, isCuda) == [s EXCEPT !.accel = "released"]

\* EmitterDistr when normalize() is never called.
EmitterDistr_unnormalized(emitters) ==
    [cdf |-> [i \in 1..(Len(emitters) + 1) |-> <<i - 1, 1>>],
     sum |-> RZero,
     normalized |-> FALSE]

RECURSIVE AppendWeights(_, _)
\* for (i = 0; i < n; ++i) distr.append(1.f)
AppendWeights(d, n) == IF n = 0 THEN d ELSE append(AppendWeights(d, n - 1), ROne)

\* The discrete distribution over the emitters.
EmitterDistr(emitters) ==
    LET d == AppendWeights(DiscreteDistribution(Len(emitters)), Len(emitters))
    IN  IF Len(emitters) > 0 THEN normalize(d) ELSE d

\* The tail of the constructor: the distribution, then set_scene(this) on
\* every emitter.
Finish(s) ==
    [s EXCEPT !.m_emitter_distr = EmitterDistr(s.m_emitters),
              !.set_scene = { s.m_emitters[k].id : k \in 1..Len(s.m_emitters) }]

RECURSIVE Aggregate(_, _, _)
\* The whole loop over objs from position i on; Null when an object throws.
Aggregate(s, objs, i) ==
    IF i > Len(objs) THEN s
    ELSE IF Thrown(s, objs[i]) # NoError THEN Null
    ELSE Aggregate(Visit(s, i, objs[i]), objs, i + 1)

\* The scene a constructor call that returns leaves behind.
Constructed(objs, isCuda) ==
    Finish(AccelInit(Defaults(Aggregate(NewScene, objs, 1)), isCuda))

(***************************************************************************)
(* Queries.  A batch has one entry per lane.  Lane l's reference point is  *)
(* the point l; its 2D sample is (sx[l]/4, l/3).  What the collaborators   *)
(* answer for a batch is the world w: the density pdf[l] the selected      *)
(* emitter reports for lane l, whether lane l's shadow ray is blocked, and *)
(* what the backend reports for a lane that is masked out (stray).         *)
(***************************************************************************)
Lanes == {1, 2}

Workers == {1, 2}

Queries ==
    { [sx |-> [l \in Lanes |-> IF l = 1 THEN x ELSE y], active |-> a, tv |-> t] :
        x \in 0..3, y \in {0, 3}, a \in [Lanes -> BOOLEAN], t \in BOOLEAN }

Worlds ==
    { [pdf |-> [l \in Lanes |-> IF l = 1 THEN p ELSE 2],
       blocked |-> [l \in Lanes |-> IF l = 1 THEN b ELSE TRUE],
       stray |-> s] : p \in {0, 2}, b \in BOOLEAN, s \in BOOLEAN }

\* Point2f sample_
sample2D(qq, l) == <<Rat(qq.sx[l], 4), Rat(l, 3)>>

Dir(e, l, smp) == [emitter |-> e, ref |-> l, sample |-> smp]

\* zero<DirectionSample3f>()
ZeroDS == [d |-> Dir(0, 0, <<RZero, RZero>>), pdf |-> RZero]

\* What a DirectionSample3f that was never assigned can hold.
Indeterminate == { ZeroDS, [d |-> Dir(-1, -1, <<RZero, RZero>>), pdf |-> <<7, 1>>] }

\* DirectionSample3f ds; (declared without an initializer)
DeclareDS(junk) == junk

\* Spectrum spec = 0.f;
DeclareSpec == RZero

\* gather<EmitterPtr>(m_emitters.data(), index, active): a masked-out lane
\* holds no emitter.
gather(emitters, index, active) == IF active THEN emitters[index + 1] ELSE Null

\* sample.x() = the reused fraction
ReuseSample(smp, reused) == <<reused, smp[2]>>

\* emitter->sample_direction(ref, sample, active) in lane l: the direction
\* depends on the emitter, the reference point and the sample; a lane
\* without an emitter yields zeros.
sample_direction(e, l, smp, wd) ==
    IF e = Null THEN [ds |-> ZeroDS, spec |-> RZero]
    ELSE [ds |-> [d |-> Dir(e.id, l, smp), pdf |-> Rat(wd.pdf[l], 1)],
          spec |-> Rat(e.id, 1)]

\* any_or<true>(active): true without a look at the lanes for a CUDA array.
any_or_true(active, isCuda) == isCuda \/ \E l \in Lanes : active[l]

\* Scene::ray_test: ray_test_gpu for a CUDA variant, ray_test_cpu otherwise.
ray_test(isCuda, wd, active) ==
    [via |-> IF isCuda THEN "ray_test_gpu" ELSE "ray_test_cpu",
     mask |-> [l \in Lanes |-> IF active[l] THEN wd.blocked[l] ELSE wd.stray]]

\* Scene::ray_intersect: ray_intersect_gpu / ray_intersect_cpu.
ray_intersect(isCuda, wd, active) ==
    [via |-> IF isCuda THEN "ray_intersect_gpu" ELSE "ray_intersect_cpu",
     mask |-> [l \in Lanes |-> IF active[l] THEN wd.blocked[l] ELSE wd.stray]]

\* ray_intersect_naive when the Embree build also falls back to brute force.
ray_intersect_naive_embree(isEmbree, isCuda, wd, active) ==
    IF ~isCuda
    THEN [status |-> "ok", via |-> "ray_intersect_naive_cpu",
          mask |-> [l \in Lanes |-> IF active[l] THEN wd.blocked[l] ELSE wd.stray]]
    ELSE [status |-> "NotImplementedError", via |-> "none",
          mask |-> [l \in Lanes |-> FALSE]]

\* Scene::ray_intersect_naive
ray_intersect_naive(isEmbree, isCuda, wd, active) ==
    IF ~isEmbree /\ ~isCuda
    THEN [status |-> "ok", via |-> "ray_intersect_naive_cpu",
          mask |-> [l \in Lanes |-> IF active[l] THEN wd.blocked[l] ELSE wd.stray]]
    ELSE [status |-> "NotImplementedError", via |-> "none",
          mask |-> [l \in Lanes |-> FALSE]]

\* active &= neq(ds.pdf, 0.f)
StillActive(active, pdf) == active /\ pdf # RZero

\* if (test_visibility && any_or<true>(active))
TestsVisibility(tv, active, isCuda) == tv /\ any_or_true(active, isCuda)

\* Shadowed when the mask of ray_test is ignored.
Shadowed_ignored(spec, hit) == spec

\* spec[ray_test(ray, active)] = 0.f
Shadowed(spec, hit) == IF hit THEN RZero ELSE spec

\* ds.pdf *= emitter_pdf
ScalePdf(pdf, emitter_pdf) == RMul(pdf, emitter_pdf)

\* ScaleSpec when the radiance is multiplied by the selection probability.
ScaleSpec_times(spec, emitter_pdf) == RMul(spec, emitter_pdf)

\* spec *= rcp(emitter_pdf)
ScaleSpec(spec, emitter_pdf) == RMul(spec, rcp(emitter_pdf))

\* Scene::sample_emitter_direction.  The result also records whether
\* ray_test ran, its mask, and the emitters that were invoked.
sample_emitter_direction(s, isCuda, qq, wd, junk) ==
    IF s.m_emitters = <<>>
    THEN [ds |-> [l \in Lanes |-> DeclareDS(junk)],
          spec |-> [l \in Lanes |-> DeclareSpec],
          ray_test |-> FALSE,
          hit |-> [l \in Lanes |-> FALSE],
          invoked |-> {}]
    ELSE LET pick == [l \in Lanes |->
                         sample_reuse_pdf(s.m_emitter_distr, sample2D(qq, l)[1])]
             smp == [l \in Lanes |-> ReuseSample(sample2D(qq, l), pick[l].reused)]
             em == [l \in Lanes |-> gather(s.m_emitters, pick[l].index, qq.active[l])]
             es == [l \in Lanes |-> sample_direction(em[l], l, smp[l], wd)]
             active == [l \in Lanes |-> StillActive(qq.active[l], es[l].ds.pdf)]
             tested == TestsVisibility(qq.tv, active, isCuda)
             hit == [l \in Lanes |-> tested /\ ray_test(isCuda, wd, active).mask[l]]
         IN  [ds |-> [l \in Lanes |->
                        [es[l].ds EXCEPT !.pdf = ScalePdf(@, pick[l].pdf)]],
              spec |-> [l \in Lanes |->
                        ScaleSpec(Shadowed(es[l].spec, hit[l]), pick[l].pdf)],
              ray_test |-> tested,
              hit |-> hit,
              invoked |-> { em[l].id : l \in { k \in Lanes : qq.active[k] } }]

(***************************************************************************)
(* State.                                                                  *)
(*   props          the entries of props.objects(), in enumeration order   *)
(*   embree, cuda   MTS_USE_EMBREE; is_cuda_array_v<Float>                 *)
(*   pc             where the scene is in its life                         *)
(*   pos            entries of props visited by the constructor's loop     *)
(*   scene          the members of the Scene                               *)
(*   error          the exception the constructor left with                *)
(*   init_calls     calls of accel_init_cpu / accel_init_gpu               *)
(*   release_calls  calls of accel_release_cpu / accel_release_gpu         *)
(*   q, world       the query batch the workers issue and what the         *)
(*                  collaborators answer for it                            *)
(*   ret            the query that returned last: the method, the worker   *)
(*                  that called it, how it ended and what it returned      *)
(***************************************************************************)
VARIABLES props, embree, cuda, pc, pos, scene, error, init_calls,
          release_calls, q, world, ret

vars == <<props, embree, cuda, pc, pos, scene, error, init_calls,
          release_calls, q, world, ret>>

NoReturn == [op |-> "none", by |-> 0, status |-> "none"]

\* The batches and answers explored together with the scene's whole life.
LifeQueries ==
    { qq \in Queries : qq.sx = [l \in Lanes |-> 3] /\ qq.active[1] /\ ~qq.active[2] }

LifeWorlds == { wd \in Worlds : wd.pdf[1] = 2 /\ wd.blocked[1] /\ ~wd.stray }

Init ==
    /\ props \in PropsSet
    /\ embree \in BOOLEAN
    /\ cuda \in BOOLEAN
    /\ pc = "Uninitialized"
    /\ pos = 0
    /\ scene = NewScene
    /\ error = NoError
    /\ init_calls = 0
    /\ release_calls = 0
    /\ q \in LifeQueries
    /\ world \in LifeWorlds
    /\ ret = NoReturn

\* Scene::Scene(props) is entered.
Enter ==
    /\ pc = "Uninitialized"
    /\ pc' = "Aggregating"
    /\ UNCHANGED <<props, embree, cuda, pos, scene, error, init_calls,
                   release_calls, q, world, ret>>

\* One iteration of the loop over props.objects().
VisitObject ==
    /\ pc = "Aggregating"
    /\ pos < Len(props)
    /\ pos' = pos + 1
    /\ scene' = Visit(scene, pos + 1, props[pos + 1])
    /\ error' = Thrown(scene, props[pos + 1])
    /\ pc' = IF error' = NoError THEN "Aggregating" ELSE "Failed"
    /\ UNCHANGED <<props, embree, cuda, init_calls, release_calls, q, world, ret>>

\* The loop is over: the default sensor and integrator.
SynthesizeDefaults ==
    /\ pc = "Aggregating"
    /\ pos = Len(props)
    /\ scene' = Defaults(scene)
    /\ pc' = "BackendBuilding"
    /\ UNCHANGED <<props, embree, cuda, pos, error, init_calls, release_calls,
                   q, world, ret>>

\* InitBackend when the backend is initialised before the defaults are
\* synthesized.
InitBackend_early ==
    /\ pc = "Aggregating"
    /\ pos = Len(props)
    /\ scene.accel = "none"
    /\ init_calls' = init_calls + 1
    /\ scene' = AccelInit(scene, cuda)
    /\ UNCHANGED <<props, embree, cuda, pc, pos, error, release_calls, q, world, ret>>

\* accel_init_gpu(props) / accel_init_cpu(props), which may throw.
InitBackend ==
    /\ pc = "BackendBuilding"
    /\ scene.accel = "none"
    /\ init_calls' = init_calls + 1
    /\ \E ok \in BOOLEAN :
         IF ok
         THEN /\ scene' = AccelInit(scene, cuda)
              /\ UNCHANGED <<pc, error>>
         ELSE /\ pc' = "Failed"
              /\ error' = "accel_init"
              /\ UNCHANGED scene
    /\ UNCHANGED <<props, embree, cuda, pos, release_calls, q, world, ret>>

\* The emitter distribution and set_scene; the constructor returns.
BuildDistribution ==
    /\ pc = "BackendBuilding"
    /\ scene.accel # "none"
    /\ scene' = Finish(scene)
    /\ pc' = "Ready"
    /\ UNCHANGED <<props, embree, cuda, pos, error, init_calls, release_calls,
                   q, world, ret>>

\* Scene::~Scene()
Destroy ==
    /\ pc = "Ready"
    /\ scene' = AccelRelease(scene, cuda)
    /\ release_calls' = release_calls + 1
    /\ pc' = "Released"
    /\ UNCHANGED <<props, embree, cuda, pos, error, init_calls, q, world, ret>>

\* A worker calls ray_intersect(ray, active).
RayIntersect(w) ==
    /\ pc = "Ready"
    /\ ret' = [op |-> "ray_intersect", by |-> w, status |-> "ok",
               out |-> ray_intersect(cuda, world, q.active)]
    /\ UNCHANGED <<props, embree, cuda, pc, pos, scene, error, init_calls,
                   release_calls, q, world>>

\* A worker calls ray_intersect_naive(ray, active).
RayIntersectNaive(w) ==
    /\ pc = "Ready"
    /\ ret' = [op |-> "ray_intersect_naive", by |-> w,
               status |-> ray_intersect_naive(embree, cuda, world, q.active).status,
               out |-> ray_intersect_naive(embree, cuda, world, q.active)]
    /\ UNCHANGED <<props, embree, cuda, pc, pos, scene, error, init_calls,
                   release_calls, q, world>>

\* A worker calls ray_test(ray, active).
RayTest(w) ==
    /\ pc = "Ready"
    /\ ret' = [op |-> "ray_test", by |-> w, status |-> "ok",
               out |-> ray_test(cuda, world, q.active)]
    /\ UNCHANGED <<props, embree, cuda, pc, pos, scene, error, init_calls,
                   release_calls, q, world>>

\* A worker calls sample_emitter_direction(ref, sample_, test_visibility,
\* active).
SampleEmitterDirection(w) ==
    /\ pc = "Ready"
    /\ \E junk \in Indeterminate :
         ret' = [op |-> "sample_emitter_direction", by |-> w, status |-> "ok",
                 out |-> sample_emitter_direction(scene, cuda, q, world, junk)]
    /\ UNCHANGED <<props, embree, cuda, pc, pos, scene, error, init_calls,
                   release_calls, q, world>>

Next ==
    \/ Enter
    \/ VisitObject
    \/ SynthesizeDefaults
    \/ InitBackend
    \/ BuildDistribution
    \/ Destroy
    \/ \E w \in Workers : RayIntersect(w)
    \/ \E w \in Workers : RayIntersectNaive(w)
    \/ \E w \in Workers : RayTest(w)
    \/ \E w \in Workers : SampleEmitterDirection(w)

Spec == Init /\ [][Next]_vars

(***************************************************************************)
(* The queries alone: a scene that was constructed from emitters and       *)
(* shapes with emitters, and every batch and world.                        *)
(***************************************************************************)
SampleProps ==
    SeqsUpTo({ o \in Objects : (o.kind = "emitter" \/ o.is_emitter)
                               /\ ~o.env /\ ~o.is_sensor }, MaxObjs)

InitSample ==
    /\ props \in SampleProps
    /\ embree = FALSE
    /\ cuda \in BOOLEAN
    /\ pc = "Ready"
    /\ pos = Len(props)
    /\ scene = Constructed(props, cuda)
    /\ error = NoError
    /\ init_calls = 1
    /\ release_calls = 0
    /\ q \in Queries
    /\ world \in Worlds
    /\ ret = NoReturn

NextSample ==
    \/ \E w \in Workers : RayIntersect(w)
    \/ \E w \in Workers : RayTest(w)
    \/ \E w \in Workers : SampleEmitterDirection(w)

SpecSample == InitSample /\ [][NextSample]_vars

(***************************************************************************)
(* Properties.                                                             *)
(***************************************************************************)
SampleOp == "sample_emitter_direction"

Completed == pc \in {"Ready", "Released"}

IsEnvironmentEmitter(o) == o.kind = "emitter" /\ o.env

IsIntegrator(o) == o.kind = "integrator"

HasSensor(objs) ==
    \E i \in 1..Len(objs) :
        objs[i].kind = "sensor" \/ (objs[i].kind = "shape" /\ objs[i].is_sensor)

HasIntegrator(objs) == \E i \in 1..Len(objs) : IsIntegrator(objs[i])

\* The positions of objs holding a standalone environment emitter that
\* follows another one, or an integrator that follows another one.
Seconds(objs) ==
    { i \in 1..Len(objs) :
        \E j \in 1..(i - 1) :
            \/ IsEnvironmentEmitter(objs[i]) /\ IsEnvironmentEmitter(objs[j])
            \/ IsIntegrator(objs[i]) /\ IsIntegrator(objs[j]) }

\* The first of them, 0 when there is none.
SecondAt(objs) ==
    IF Seconds(objs) = {} THEN 0
    ELSE CHOOSE i \in Seconds(objs) : \A j \in Seconds(objs) : i <= j

\* The positions of objs that contribute an emitter, in order.
RECURSIVE EmitterIds(_, _)
EmitterIds(objs, i) ==
    IF i > Len(objs) THEN <<>>
    ELSE IF objs[i].kind = "emitter" \/ (objs[i].kind = "shape" /\ objs[i].is_emitter)
    THEN <<i>> \o EmitterIds(objs, i + 1)
    ELSE EmitterIds(objs, i + 1)

\* C1: when props hold a second standalone environment emitter or a second
\* integrator, the constructor throws the configuration error while it
\* visits the first such second object: it never gets past that object, no
\* scene results and accel_init_* is never called.  Without such an object
\* no configuration error is raised.
C1_SecondObjectFailsConstruction ==
    LET at == SecondAt(props)
    IN  /\ at > 0 =>
            /\ pc \in {"Uninitialized", "Aggregating", "Failed"}
            /\ init_calls = 0
            /\ scene.accel = "none"
            /\ pos <= at
            /\ (pos = at) <=> (pc = "Failed")
            /\ pc = "Failed" =>
                 /\ Len(scene.m_children) = at
                 /\ error = IF IsIntegrator(props[at])
                            THEN "Only one integrator can be specified per scene."
                            ELSE "Only one environment emitter can be specified per scene."
        /\ at = 0 => error \in {NoError, "accel_init"}

\* C1's case: the constructor failed at the second environment emitter.
C1_Witness ==
    /\ pc = "Failed"
    /\ pos = 2
    /\ IsEnvironmentEmitter(props[1])
    /\ IsEnvironmentEmitter(props[2])
    /\ init_calls = 0

\* C2: a scene whose construction completed has a sensor and an
\* integrator; it holds the default sensor exactly when props held no
\* sensor, standalone or embedded in a shape, and the default integrator
\* exactly when props held no integrator; the default sensor is also there
\* when the bounding box is invalid.
C2_DefaultsSynthesized ==
    Completed =>
        /\ Len(scene.m_sensors) >= 1
        /\ scene.m_integrator # Null
        /\ (\E k \in 1..Len(scene.m_sensors) : scene.m_sensors[k].id = 0)
               <=> ~HasSensor(props)
        /\ ~HasSensor(props) => scene.m_sensors = <<DefaultSensor(scene.m_bbox)>>
        /\ (scene.m_integrator = DefaultIntegrator) <=> ~HasIntegrator(props)
        /\ HasIntegrator(props) =>
               /\ scene.m_integrator.id \in 1..Len(props)
               /\ IsIntegrator(props[scene.m_integrator.id])

\* C2's case: no shape, no sensor, no integrator; both defaults synthesized.
C2_Witness ==
    /\ pc = "Ready"
    /\ ~valid(scene.m_bbox)
    /\ scene.m_sensors = <<DefaultSensor(EmptyBBox)>>
    /\ scene.m_integrator = DefaultIntegrator

\* The emitters of the list that carry the environment flag.
EnvironmentFlagged(s) == { k \in 1..Len(s.m_emitters) : s.m_emitters[k].env }

\* C3: in a scene whose construction completed at most one emitter of
\* m_emitters carries the environment flag, standalone or embedded in a
\* shape, and m_environment, when set, is that emitter.
C3_OneEnvironmentEmitter ==
    Completed =>
        /\ Cardinality(EnvironmentFlagged(scene)) <= 1
        /\ scene.m_environment # Null =>
               \A k \in EnvironmentFlagged(scene) :
                   scene.m_emitters[k] = scene.m_environment

\* What of C3 the constructor does keep: at most one standalone emitter
\* carries the flag, and m_environment is that emitter.
StandaloneEnvironmentUnique ==
    Completed =>
        LET standalone == { k \in EnvironmentFlagged(scene) :
                              ~scene.m_emitters[k].embedded }
        IN  /\ Cardinality(standalone) <= 1
            /\ \A k \in standalone : scene.m_emitters[k] = scene.m_environment
            /\ scene.m_environment # Null => standalone # {}

\* C4: with an empty emitter list sample_emitter_direction returns a zero
\* pdf and zero radiance in every lane, and calls neither ray_test nor an
\* emitter.
C4_EmptyListReturnsZero ==
    (ret.op = SampleOp /\ scene.m_emitters = <<>>) =>
        /\ \A l \in Lanes : ret.out.ds[l].pdf = RZero /\ ret.out.spec[l] = RZero
        /\ ~ret.out.ray_test
        /\ ret.out.invoked = {}

\* What of C4 the code does keep: zero radiance, no call of ray_test or of
\* an emitter.
EmptyListRadianceZero ==
    (ret.op = SampleOp /\ scene.m_emitters = <<>>) =>
        /\ \A l \in Lanes : ret.out.spec[l] = RZero
        /\ ~ret.out.ray_test
        /\ ret.out.invoked = {}

\* The same call with test_visibility unset.
Unoccluded == sample_emitter_direction(scene, cuda, [q EXCEPT !.tv = FALSE], world, ZeroDS)

\* C5: with test_visibility set, a lane that is active, has a non-zero
\* emitter pdf and whose shadow ray ray_test reports hit gets zero radiance
\* and the direction and pdf of the call with test_visibility unset; a lane
\* that ray_test does not report hit keeps the radiance of that call; with
\* test_visibility unset ray_test is not called and nothing is zeroed.
C5_OcclusionZeroesRadianceOnly ==
    (ret.op = SampleOp /\ scene.m_emitters # <<>>) =>
        /\ \A l \in Lanes :
             /\ (q.tv /\ q.active[l] /\ world.pdf[l] # 0 /\ ret.out.hit[l]) =>
                    /\ ret.out.spec[l] = RZero
                    /\ ret.out.ds[l] = Unoccluded.ds[l]
                    /\ ret.out.ds[l].pdf # RZero
             /\ ~ret.out.hit[l] => ret.out.spec[l] = Unoccluded.spec[l]
             /\ ret.out.ds[l] = Unoccluded.ds[l]
             /\ (q.active[l] /\ world.pdf[l] # 0 /\ q.tv) =>
                    (ret.out.hit[l] <=> world.blocked[l])
        /\ \A l \in Lanes :
             (q.active[l] /\ ~ret.out.hit[l]) =>
                 LET pick == sample_reuse_pdf(scene.m_emitter_distr, sample2D(q, l)[1])
                     e == scene.m_emitters[pick.index + 1]
                 IN  ret.out.spec[l] = RDiv(Rat(e.id, 1), pick.pdf)
        /\ ~q.tv => /\ ~ret.out.ray_test
                    /\ \A l \in Lanes : ~ret.out.hit[l]

\* C5's case: an active lane with non-zero pdf whose shadow ray is blocked.
C5_Witness ==
    /\ ret.op = SampleOp
    /\ scene.m_emitters # <<>>
    /\ q.tv /\ q.active[1] /\ world.pdf[1] # 0 /\ ret.out.hit[1]
    /\ ret.out.spec[1] = RZero
    /\ Unoccluded.spec[1] # RZero

\* C6: with a non-empty emitter list, in every active lane the emitter is
\* the one sample_reuse_pdf selects from the first coordinate of the
\* sample; it is handed the sample with the first coordinate replaced by
\* the reused fraction and the second unchanged; the pdf returned is the
\* emitter's times the selection probability and the radiance is the
\* emitter's, after the visibility step, divided by it.
C6_SelectionProbabilityAccounted ==
    (ret.op = SampleOp /\ scene.m_emitters # <<>>) =>
        \A l \in Lanes :
            q.active[l] =>
                LET pick == sample_reuse_pdf(scene.m_emitter_distr, sample2D(q, l)[1])
                    e == scene.m_emitters[pick.index + 1]
                    passed == <<pick.reused, sample2D(q, l)[2]>>
                    own == sample_direction(e, l, passed, world)
                IN  /\ ret.out.ds[l].d = Dir(e.id, l, passed)
                    /\ e.id \in ret.out.invoked
                    /\ ret.out.ds[l].pdf = RMul(own.ds.pdf, pick.pdf)
                    /\ ret.out.spec[l] =
                           RDiv(IF ret.out.hit[l] THEN RZero ELSE own.spec, pick.pdf)

\* C6's case: two emitters, the second selected, the sample rescaled, the
\* pdf halved and the radiance doubled.
C6_Witness ==
    /\ ret.op = SampleOp
    /\ Len(scene.m_emitters) = 2
    /\ q.active[1] /\ q.sx[1] = 3
    /\ ret.out.ds[1].d = Dir(scene.m_emitters[2].id, 1, <<<<1, 2>>, <<1, 3>>>>)
    /\ ret.out.ds[1].pdf = ROne
    /\ ret.out.spec[1] = Rat(2 * scene.m_emitters[2].id, 1)

NaiveOp == "ray_intersect_naive"

\* C7: ray_intersect_naive returns a result exactly when neither the Embree
\* build nor the CUDA variant is in use, and fails with NotImplementedError
\* otherwise; the call changes no member of the scene and leaves it Ready.
C7_NaiveOnlyOnNativeCpu ==
    /\ [](ret.op = NaiveOp =>
            /\ (ret.status = "ok") <=> (~embree /\ ~cuda)
            /\ ret.status = "ok" => ret.out.via = "ray_intersect_naive_cpu"
            /\ ret.status # "ok" =>
                   ret.status = "NotImplementedError" /\ ret.out.via = "none")
    /\ [][(ret'.op = NaiveOp /\ ret' # ret) =>
            (pc = "Ready" /\ pc' = "Ready" /\ scene' = scene)]_vars

\* C7's case: the call failed on an Embree build of a CPU variant.
C7_Witness ==
    /\ ret.op = NaiveOp
    /\ ret.status = "NotImplementedError"
    /\ embree /\ ~cuda
    /\ pc = "Ready"

\* The order of a scene's life.
LifeOrder ==
    { <<"Uninitialized", "Aggregating">>, <<"Aggregating", "Aggregating">>,
      <<"Aggregating", "Failed">>, <<"Aggregating", "BackendBuilding">>,
      <<"BackendBuilding", "BackendBuilding">>, <<"BackendBuilding", "Failed">>,
      <<"BackendBuilding", "Ready">>, <<"Ready", "Ready">>, <<"Ready", "Released">> }

\* C8: the backend is initialised at most once, and only after every object
\* was visited and the defaults synthesized; a Ready scene had its backend
\* initialised once and its distribution built; the backend is released at
\* most once, by the step that takes a Ready scene to Released; the states
\* follow Uninitialized, Aggregating, BackendBuilding, Ready, Released; and
\* nothing happens to a Released scene.
C8_Lifecycle ==
    /\ [](/\ init_calls <= 1
          /\ release_calls <= 1
          /\ init_calls = 1 =>
                /\ pos = Len(props)
                /\ Len(scene.m_children) = Len(props)
                /\ scene.m_sensors # <<>>
                /\ scene.m_integrator # Null
          /\ scene.accel \in {"cpu", "gpu"} => init_calls = 1
          /\ pc = "Ready" =>
                /\ init_calls = 1
                /\ release_calls = 0
                /\ scene.accel = (IF cuda THEN "gpu" ELSE "cpu")
                /\ size(scene.m_emitter_distr) = Len(scene.m_emitters)
                /\ scene.set_scene =
                       { scene.m_emitters[k].id : k \in 1..Len(scene.m_emitters) }
          /\ (release_calls = 1) <=> (pc = "Released")
          /\ pc = "Released" => scene.accel = "released" /\ init_calls = 1
          /\ pc \in {"Uninitialized", "Aggregating", "Failed"} => ret = NoReturn)
    /\ [][/\ <<pc, pc'>> \in LifeOrder
          /\ release_calls' # release_calls => (pc = "Ready" /\ pc' = "Released")
          /\ init_calls' # init_calls => pc = "BackendBuilding"
          /\ ret' # ret => (pc = "Ready" /\ pc' = "Ready")]_vars

\* C8's case: a scene went through its whole life.
C8_Witness ==
    /\ pc = "Released"
    /\ init_calls = 1
    /\ release_calls = 1
    /\ Len(props) = 2
    /\ ret.op = SampleOp

\* Two returns of the same method agree in every lane that is active.
SameResult(a, b) ==
    /\ a.status = b.status
    /\ \A l \in Lanes :
         q.active[l] =>
            IF a.op = SampleOp
            THEN a.out.ds[l] = b.out.ds[l] /\ a.out.spec[l] = b.out.spec[l]
            ELSE a.out.mask[l] = b.out.mask[l]

\* C9: a query on a Ready scene changes no member of the scene, and, with
\* the workers issuing the same batch, returns what the same query
\* returned before, whichever worker called it.
C9_QueriesReadOnlyReproducible ==
    [][(ret'.op # "none" /\ ret' # ret) =>
          /\ scene' = scene
          /\ ret.op = ret'.op => SameResult(ret, ret')]_vars

\* What of C9 the code does keep: no query changes the scene, the batch or
\* the world, and on a scene with emitters a query returns what it
\* returned before.
QueriesLeaveSceneUnchanged ==
    [][(ret'.op # "none" /\ ret' # ret) =>
          /\ scene' = scene /\ pc' = pc
          /\ (ret.op = ret'.op /\ scene.m_emitters # <<>>) => SameResult(ret, ret')]_vars

\* The scene the constructor's steps leave is the scene Constructed gives,
\* from which the queries alone are explored.
ConstructedAgrees == pc = "Ready" => scene = Constructed(props, cuda)

\* C10: after construction the distribution has one entry per emitter that
\* props contributed, the emitters are listed in the order of props, and
\* the entries have equal weight; with n > 0 emitters the distribution is
\* normalized, the weights sum to 1, every entry has probability 1/n and
\* every sample in [0, 1) selects an element of the list, the one at
\* floor(x n); with no emitter it is empty and not normalized.
C10_UniformEmitterDistribution ==
    Completed =>
        LET n == Len(scene.m_emitters)
            d == scene.m_emitter_distr
        IN  /\ [k \in 1..n |-> scene.m_emitters[k].id] = EmitterIds(props, 1)
            /\ size(d) = n
            /\ d.cdf[1] = RZero
            /\ \A k \in 1..n : \A j \in 1..n :
                   RSub(d.cdf[k + 1], d.cdf[k]) = RSub(d.cdf[j + 1], d.cdf[j])
            /\ n > 0 =>
                   /\ d.normalized
                   /\ Last(d.cdf) = ROne
                   /\ \A k \in 1..n : RSub(d.cdf[k + 1], d.cdf[k]) = Rat(1, n)
                   /\ \A x \in 0..11 :
                          LET pick == sample_reuse_pdf(d, Rat(x, 12))
                          IN  /\ pick.index = (x * n) \div 12
                              /\ pick.index + 1 \in 1..n
                              /\ pick.pdf = Rat(1, n)
                              /\ pick.reused = Rat(x * n - 12 * pick.index, 12)
            /\ n = 0 => d = DiscreteDistribution(0)

\* C10's case: two emitters, one of them embedded in a shape.
C10_Witness ==
    /\ pc = "Ready"
    /\ Len(scene.m_emitters) = 2
    /\ scene.m_emitters[1].embedded
    /\ ~scene.m_emitters[2].embedded
    /\ scene.m_emitter_distr.cdf = <<RZero, <<1, 2>>, ROne>>
    /\ scene.m_emitter_distr.normalized

====
